---- MODULE Spec2Model ----
(***************************************************************************)
(* Audio capture, hand-off, ring histories, render tick and playback of    *)
(* XVF3800DiagnosticApp (src/reSpeaker_XVF3800_Diagnostic_App.py).         *)
(*                                                                         *)
(* Execution contexts:                                                     *)
(*   - the Tk main loop (UI context): button handlers, the render tick     *)
(*     update_visualization and _playback_finished.  One handler runs at   *)
(*     a time; ui_pc is its position.                                      *)
(*   - one driver thread per open capture stream, running audio_callback.  *)
(*   - one thread per started playback, running _playback_thread.          *)
(* A handler is cut into steps wherever it reads or writes state another   *)
(* context reads or writes.                                                *)
(***************************************************************************)
EXTENDS Integers, Sequences, FiniteSets, TLC

(* ------------------------------ bounds -------------------------------- *)
\* PyAudio instances created by capture starts (plus the one of __init__)
MaxCapture == 3
\* frames the drivers deliver in one behaviour
MaxFrames == 2
\* samples per delivered frame (frames_per_buffer * channels, scaled down)
FrameLen == 2
\* deque(maxlen=10000) of audio_buffer, scaled down
AudioBufferMaxlen == 2
\* deque(maxlen=50000) of time_pattern_buffer, scaled down (stays larger)
TimePatternMaxlen == 3
\* len(self.audio_buffer) > 100, scaled down
MinBuffer == 1
\* len(self.time_pattern_buffer) > 1000, scaled down
MinPattern == 2
\* len(self.time_pattern_buffer) > 100, scaled down
MinEnvelope == 1
\* PyAudio instances created by start_playback in one behaviour
MaxPlay == 2
\* chunk_size = 1024 samples, scaled down
ChunkSize == 1
\* window_size = 1000 samples per envelope window, scaled down
WindowSize == 2
\* len(pattern_data) > 10000, the points the pattern panel takes undecimated,
\* scaled down (stays above MinPattern)
DisplayBudget == 3

\* Python's None, for the handles and timestamps that are None or set
None == 0

(* ------------------------------ state --------------------------------- *)
VARIABLES
  audio_listening,      \* self.audio_listening
  audio_recording,      \* self.audio_recording
  audio_stream,         \* self.audio_stream: None or an index of in_streams
  audio,                \* self.audio: index of pa_term
  pa_term,              \* per capture PyAudio instance: live or terminated
  in_streams,           \* capture streams ever opened with stream_callback
  selected_device_index,
  sample_rate_var,
  channels_var,
  dev,                  \* the selected device: defaults and accepted configs
  record_enabled,       \* record_button state NORMAL
  playback_enabled,     \* playback_button state NORMAL
  recording_start_time, \* None or set
  audio_data_queue,     \* queue.Queue of frames
  audio_buffer,         \* deque(maxlen=10000)
  time_pattern_buffer,  \* deque(maxlen=50000)
  pattern_start_time,   \* None or the frame at whose arrival it was set
  ui_pc,                \* position of the handler running on the UI context
  t_last,               \* update_visualization's local audio_data
  ticks,                \* pending root.after(50, update_visualization)
  envelope,             \* the envelope drawn on waveform_ax3
  pattern_plot,         \* the series drawn on waveform_ax2
  delivered,            \* frames delivered by the drivers so far
  audio_playing,        \* self.audio_playing
  playback_stream,      \* self.playback_stream: None or index of out_streams
  playback_audio,       \* self.playback_audio: None or index of ppa_term
  ppa_term,             \* per playback PyAudio instance: live or terminated
  out_streams,          \* output streams ever opened
  threads,              \* playback threads ever started
  fin_pending,          \* pending root.after(0, _playback_finished)
  pushed,               \* history: samples put on the queue, in put order
  appended,             \* history: samples the ticks appended to audio_buffer
  ab_hist,              \* history: appended to audio_buffer since its last clear
  tp_hist,              \* history: appended to time_pattern_buffer since its last clear
  open_attempts,        \* history: calls of audio.open(stream_callback=...)
  queued_at_stop,       \* history: frames at the head of the queue that were on it when capture last went idle
  events,               \* history: probes, opens and log records of the last start that reached the device
  wav_file,             \* the file save_recording wrote, if it wrote one
  loaded_audio_data,    \* self.loaded_audio_data: bytes; empty while None
  loaded_audio_file     \* self.loaded_audio_file: None or set

capture_vars == <<audio_listening, audio_recording, audio_stream, audio, pa_term,
                  in_streams, selected_device_index, sample_rate_var, channels_var,
                  dev, record_enabled, recording_start_time, open_attempts, events>>
buffer_vars == <<audio_data_queue, audio_buffer, time_pattern_buffer,
                 pattern_start_time, delivered, pushed, appended, ab_hist, tp_hist,
                 queued_at_stop>>
tick_vars == <<t_last, ticks, envelope, pattern_plot>>
file_vars == <<wav_file, loaded_audio_data, loaded_audio_file>>
playback_vars == <<audio_playing, playback_stream, playback_audio, ppa_term,
                   out_streams, threads, fin_pending, playback_enabled, file_vars>>
vars == <<capture_vars, buffer_vars, tick_vars, playback_vars, ui_pc>>

(* ------------------------------ helpers ------------------------------- *)
Min(a, b) == IF a <= b THEN a ELSE b

\* a bounded deque that refuses a sample when full instead of evicting
DequeAppendDropNewest(d, x, maxlen) ==
  IF Len(d) >= maxlen THEN d ELSE Append(d, x)

\* collections.deque(maxlen=...).append(x): a full deque discards its leftmost
\* item, then x goes on the right
DequeAppend(d, x, maxlen) ==
  IF Len(d) >= maxlen THEN Append(Tail(d), x) ELSE Append(d, x)

\* collections.deque(maxlen=...).extend(xs): append the items of xs one by one
RECURSIVE DequeExtend(_, _, _)
DequeExtend(d, xs, maxlen) ==
  IF xs = <<>> THEN d
  ELSE DequeExtend(DequeAppend(d, Head(xs), maxlen), Tail(xs), maxlen)

\* the samples of the k-th delivered frame (np.frombuffer(in_data, dtype=np.int16))
Frame(k) == [i \in 1..FrameLen |-> (k - 1) * FrameLen + i]

\* PyAudio.terminate() on instance p; it closes the streams p still owns.  A
\* terminate() on an instance already terminated is remembered as such.
TermCount(terms, p) ==
  [terms EXCEPT ![p] = IF @ = "live" THEN "terminated" ELSE "terminated_again"]
CloseAll(streams, S) ==
  [s \in DOMAIN streams |->
     IF s \in S THEN [streams[s] EXCEPT !.open = FALSE] ELSE streams[s]]
CloseOwned(streams, p) == CloseAll(streams, {s \in DOMAIN streams : streams[s].pa = p})

\* Pa_StopStream / Pa_CloseStream return only when the stream's callback has returned
CallbacksIdle(streams, S) == \A s \in S : streams[s].pc = "idle"
Owned(streams, p) == {s \in DOMAIN streams : streams[s].pa = p /\ streams[s].open}

OpenCapture == {s \in DOMAIN in_streams : in_streams[s].open}
OpenOutput == {s \in DOMAIN out_streams : out_streams[s].open}

(* ---------------------------- negotiation ----------------------------- *)
Requested == <<16000, 2>>
FallbackRates == <<44100, 48000, 16000, 8000>>

\* the configs a negotiation started from Requested may probe
ProbedConfigs ==
  {<<16000, 2>>, <<48000, 2>>, <<44100, 1>>, <<48000, 1>>, <<16000, 1>>, <<8000, 1>>}

\* the devices a behaviour may run against: device_info of the selected device,
\* the configs the device opens with, in every pattern, and whether the host
\* API gives the device to one stream at a time (ALSA hw) or shares it
Devices ==
  [defaultSampleRate : {48000, 16000},
   maxInputChannels : {1, 4},
   accepts : SUBSET ProbedConfigs,
   exclusive : BOOLEAN]

\* a probe: audio.open(...) then test_stream.close(); TRUE when the open
\* succeeds.  An exclusive device refuses every open while a stream on it is open
Probe(d, cfg) == cfg \in d.accepts /\ ~(d.exclusive /\ OpenCapture # {})

FirstFallback(d) ==
  LET ok == {i \in DOMAIN FallbackRates : Probe(d, <<FallbackRates[i], 1>>)}
  IN IF ok = {} THEN 0 ELSE CHOOSE i \in ok : \A j \in ok : i <= j

\* a negotiation that goes from the requested config straight to the fallback
\* list and tries the device defaults last
NegotiateSkipDefault(d, rate, ch) ==
  LET def == <<d.defaultSampleRate, Min(d.maxInputChannels, 2)>>
      fb == FirstFallback(d)
  IN IF Probe(d, <<rate, ch>>) THEN [cfg |-> <<rate, ch>>, set |-> FALSE]
     ELSE IF fb # 0 THEN [cfg |-> <<FallbackRates[fb], 1>>, set |-> TRUE]
     ELSE [cfg |-> def, set |-> TRUE]

\* the config the capture stream is opened with, and whether the StringVars were set
Negotiate(d, rate, ch) ==
  LET def == <<d.defaultSampleRate, Min(d.maxInputChannels, 2)>>
      fb == FirstFallback(d)
  IN IF Probe(d, <<rate, ch>>) THEN [cfg |-> <<rate, ch>>, set |-> FALSE]
     ELSE IF Probe(d, def) THEN [cfg |-> def, set |-> TRUE]
     ELSE IF fb # 0 THEN [cfg |-> <<FallbackRates[fb], 1>>, set |-> TRUE]
     ELSE [cfg |-> def, set |-> TRUE]

\* a probe that leaves test_stream open
ProbeEventsLeaked(d, cfg) ==
  IF Probe(d, cfg) THEN <<"probe_open">> ELSE <<"probe_fail">>

\* what a probe does: audio.open(...) returns and test_stream.close() follows,
\* or audio.open(...) raises
ProbeEvents(d, cfg) ==
  IF Probe(d, cfg) THEN <<"probe_open", "probe_close">> ELSE <<"probe_fail">>

\* lines 713-730: the fallback loop from rate i on; a successful probe breaks,
\* a failed one goes to the bare except and continue
RECURSIVE FallbackEvents(_, _)
FallbackEvents(d, i) ==
  IF i > Len(FallbackRates) THEN <<>>
  ELSE ProbeEvents(d, <<FallbackRates[i], 1>>) \o
       (IF Probe(d, <<FallbackRates[i], 1>>) THEN <<>> ELSE FallbackEvents(d, i + 1))

\* lines 680-730: the probes of a negotiation and the logger.warning calls of
\* its except branches, in order
NegotiationEvents(d, rate, ch) ==
  LET def == <<d.defaultSampleRate, Min(d.maxInputChannels, 2)>>
  IN ProbeEvents(d, <<rate, ch>>) \o
     (IF Probe(d, <<rate, ch>>) THEN <<>>
      ELSE <<"log">> \o ProbeEvents(d, def) \o
           (IF Probe(d, def) THEN <<>> ELSE <<"log">> \o FallbackEvents(d, 1)))

\* lines 680-754: the negotiation, then the open of the capture stream, whose
\* failure is caught at 752 and logged at 753
StartEvents(d, rate, ch) ==
  NegotiationEvents(d, rate, ch) \o
  (IF Probe(d, Negotiate(d, rate, ch).cfg) THEN <<"capture_open">>
   ELSE <<"capture_fail", "log">>)

\* waveform_ax2 with nothing plotted on it
NoPlot == [time_axis |-> <<>>, data |-> <<>>]

\* no file written yet
NoFile == [exists |-> FALSE, nchannels |-> 0, framerate |-> 0, data |-> <<>>]

(* ------------------------------- Init --------------------------------- *)
Init ==
  /\ audio_listening = FALSE
  /\ audio_recording = FALSE
  /\ audio_stream = None
  /\ audio = 1                      \* refresh_audio_devices() in __init__
  /\ pa_term = <<"live">>
  /\ in_streams = <<>>
  /\ selected_device_index \in {None, 1}
  /\ sample_rate_var = Requested[1]
  /\ channels_var = Requested[2]
  /\ dev \in Devices
  /\ record_enabled = FALSE
  /\ playback_enabled = FALSE
  /\ recording_start_time = None
  /\ audio_data_queue = <<>>
  /\ audio_buffer = <<>>
  /\ time_pattern_buffer = <<>>
  /\ pattern_start_time = None
  /\ ui_pc = "idle"
  /\ t_last = <<>>
  /\ ticks = 0
  /\ envelope = <<>>
  /\ pattern_plot = NoPlot
  /\ delivered = 0
  /\ audio_playing = FALSE
  /\ playback_stream = None
  /\ playback_audio = None
  /\ ppa_term = <<>>
  /\ out_streams = <<>>
  /\ threads = <<>>
  /\ fin_pending = 0
  /\ pushed = <<>>
  /\ appended = <<>>
  /\ ab_hist = <<>>
  /\ tp_hist = <<>>
  /\ queued_at_stop = 0
  /\ open_attempts = 0
  /\ events = <<>>
  /\ wav_file = NoFile
  /\ loaded_audio_data = <<>>
  /\ loaded_audio_file = None

(* ------------------------- capture: start ----------------------------- *)
NewStream(p, cfg) == [pa |-> p, open |-> TRUE, pc |-> "idle", frame |-> <<>>, cfg |-> cfg]

\* start_listening / start_recording up to start_stream(): a fresh PyAudio replaces
\* self.audio, the device is negotiated, the capture stream is opened and started.
\* next_pc is where the handler continues when the stream is open.
OpenCaptureStream(next_pc) ==
  LET p == Len(pa_term) + 1
      n == Negotiate(dev, sample_rate_var, channels_var)
  IN /\ Len(pa_term) < MaxCapture
     /\ audio' = p
     /\ pa_term' = Append(pa_term, "live")
     /\ IF selected_device_index = None
        THEN \* messagebox.showerror("No audio device selected!"); return
             /\ ui_pc' = "idle"
             /\ UNCHANGED <<in_streams, audio_stream, sample_rate_var, channels_var,
                            open_attempts, events>>
        ELSE /\ sample_rate_var' = IF n.set THEN n.cfg[1] ELSE sample_rate_var
             /\ channels_var' = IF n.set THEN n.cfg[2] ELSE channels_var
             /\ open_attempts' = open_attempts + 1
             /\ events' = StartEvents(dev, sample_rate_var, channels_var)
             /\ IF Probe(dev, n.cfg)
                THEN /\ in_streams' = Append(in_streams, NewStream(p, n.cfg))
                     /\ audio_stream' = Len(in_streams) + 1
                     /\ ui_pc' = next_pc
                ELSE \* audio.open raises: logged, messagebox, handler returns
                     /\ ui_pc' = "idle"
                     /\ UNCHANGED <<in_streams, audio_stream>>

start_listening_body ==
  /\ OpenCaptureStream("sl_flag")
  /\ UNCHANGED <<audio_listening, audio_recording, selected_device_index, dev,
                 record_enabled, recording_start_time,
                 buffer_vars, tick_vars, playback_vars>>

start_recording_body ==
  /\ OpenCaptureStream("sr_flag")
  /\ UNCHANGED <<audio_listening, audio_recording, selected_device_index, dev,
                 record_enabled, recording_start_time,
                 buffer_vars, tick_vars, playback_vars>>

\* lines 743-750: the flag, the buttons, then update_visualization() is called
sl_flag ==
  /\ ui_pc = "sl_flag"
  /\ audio_listening' = TRUE
  /\ record_enabled' = TRUE
  /\ ui_pc' = "t_check"
  /\ UNCHANGED <<audio_recording, audio_stream, audio, pa_term, in_streams,
                 selected_device_index, sample_rate_var, channels_var, dev, open_attempts, events,
                 recording_start_time, buffer_vars, tick_vars, playback_vars>>

\* lines 856-867
sr_flag ==
  /\ ui_pc = "sr_flag"
  /\ audio_recording' = TRUE
  /\ recording_start_time' = 1
  /\ ui_pc' = "t_check"
  /\ UNCHANGED <<audio_listening, audio_stream, audio, pa_term, in_streams,
                 selected_device_index, sample_rate_var, channels_var, dev, open_attempts, events,
                 record_enabled, buffer_vars, tick_vars, playback_vars>>

(* -------------------------- capture: stop ----------------------------- *)
\* if self.audio_stream: stop_stream(); close(); self.audio_stream = None
\* if hasattr(self, 'audio'): self.audio.terminate()
CloseCaptureStream(next_pc) ==
  LET mine == IF audio_stream = None THEN {} ELSE {audio_stream}
      gone == (mine \cap OpenCapture) \cup Owned(in_streams, audio)
  IN /\ CallbacksIdle(in_streams, gone)
     /\ in_streams' = CloseAll(in_streams, gone)
     /\ audio_stream' = None
     /\ pa_term' = TermCount(pa_term, audio)
     /\ ui_pc' = next_pc

stop_listening_body ==
  /\ CloseCaptureStream("xl_flag")
  /\ UNCHANGED <<audio_listening, audio_recording, audio, selected_device_index,
                 sample_rate_var, channels_var, dev, open_attempts, events, record_enabled,
                 recording_start_time, buffer_vars, tick_vars, playback_vars>>

stop_recording_body ==
  /\ CloseCaptureStream("xr_flag")
  /\ UNCHANGED <<audio_listening, audio_recording, audio, selected_device_index,
                 sample_rate_var, channels_var, dev, open_attempts, events, record_enabled,
                 recording_start_time, buffer_vars, tick_vars, playback_vars>>

\* lines 766-770
xl_flag ==
  /\ ui_pc = "xl_flag"
  /\ audio_listening' = FALSE
  /\ record_enabled' = FALSE
  /\ queued_at_stop' = IF audio_recording THEN queued_at_stop ELSE Len(audio_data_queue)
  /\ ui_pc' = "xl_clear"
  /\ UNCHANGED <<audio_recording, audio_stream, audio, pa_term, in_streams,
                 selected_device_index, sample_rate_var, channels_var, dev, open_attempts, events,
                 recording_start_time, audio_data_queue, audio_buffer, time_pattern_buffer,
                 pattern_start_time, delivered, pushed, appended, ab_hist, tp_hist,
                 tick_vars, playback_vars>>

\* line 773
xl_clear ==
  /\ ui_pc = "xl_clear"
  /\ time_pattern_buffer' = <<>>
  /\ tp_hist' = <<>>
  /\ ui_pc' = "xl_stamp"
  /\ UNCHANGED <<capture_vars, audio_data_queue, audio_buffer, pattern_start_time,
                 delivered, pushed, appended, ab_hist, tick_vars, playback_vars>>

  /\ UNCHANGED queued_at_stop
\* line 774
xl_stamp ==
  /\ ui_pc = "xl_stamp"
  /\ pattern_start_time' = None
  /\ ui_pc' = "idle"
  /\ UNCHANGED <<capture_vars, audio_data_queue, audio_buffer, time_pattern_buffer,
                 delivered, pushed, appended, ab_hist, tp_hist, tick_vars,
                 playback_vars>>

  /\ UNCHANGED queued_at_stop
\* lines 883-893
xr_flag ==
  /\ ui_pc = "xr_flag"
  /\ audio_recording' = FALSE
  /\ recording_start_time' = None
  /\ record_enabled' = FALSE
  /\ playback_enabled' = (playback_enabled \/ Len(audio_buffer) > 0)
  /\ queued_at_stop' = IF audio_listening THEN queued_at_stop ELSE Len(audio_data_queue)
  /\ ui_pc' = "idle"
  /\ UNCHANGED <<audio_listening, audio_stream, audio, pa_term, in_streams,
                 selected_device_index, sample_rate_var, channels_var, dev, open_attempts, events,
                 audio_data_queue, audio_buffer, time_pattern_buffer,
                 pattern_start_time, delivered, pushed, appended, ab_hist, tp_hist,
                 tick_vars, audio_playing, playback_stream,
                 playback_audio, ppa_term, out_streams, threads, fin_pending,
                 file_vars>>


(* ------------------------- capture callback --------------------------- *)
\* the driver thread of stream s calls audio_callback with the next frame;
\* line 1084 reads the flags
cb_enter(s) ==
  /\ in_streams[s].open
  /\ in_streams[s].pc = "idle"
  /\ delivered < MaxFrames
  /\ delivered' = delivered + 1
  /\ in_streams' = IF audio_recording \/ audio_listening
                   THEN [in_streams EXCEPT ![s].pc = "put",
                                           ![s].frame = Frame(delivered + 1)]
                   ELSE in_streams
  /\ UNCHANGED <<audio_listening, audio_recording, audio_stream, audio, pa_term,
                 selected_device_index, sample_rate_var, channels_var, dev, open_attempts, events,
                 record_enabled, recording_start_time, audio_data_queue,
                 audio_buffer, time_pattern_buffer, pattern_start_time, pushed,
                 appended, ab_hist, tp_hist, tick_vars, playback_vars, ui_pc>>

  /\ UNCHANGED queued_at_stop
\* line 1087: self.audio_data_queue.put(audio_data)
cb_put(s) ==
  /\ in_streams[s].pc = "put"
  /\ audio_data_queue' = Append(audio_data_queue, in_streams[s].frame)
  /\ pushed' = pushed \o in_streams[s].frame
  /\ in_streams' = [in_streams EXCEPT ![s].pc = "extend"]
  /\ UNCHANGED <<audio_listening, audio_recording, audio_stream, audio, pa_term,
                 selected_device_index, sample_rate_var, channels_var, dev, open_attempts, events,
                 record_enabled, recording_start_time, audio_buffer,
                 time_pattern_buffer, pattern_start_time, delivered, appended,
                 ab_hist, tp_hist, tick_vars, playback_vars, ui_pc>>

  /\ UNCHANGED queued_at_stop
\* line 1090: self.time_pattern_buffer.extend(audio_data)
cb_extend(s) ==
  /\ in_streams[s].pc = "extend"
  /\ time_pattern_buffer' =
       DequeExtend(time_pattern_buffer, in_streams[s].frame, TimePatternMaxlen)
  /\ tp_hist' = tp_hist \o in_streams[s].frame
  /\ in_streams' = [in_streams EXCEPT ![s].pc = "stamp"]
  /\ UNCHANGED <<audio_listening, audio_recording, audio_stream, audio, pa_term,
                 selected_device_index, sample_rate_var, channels_var, dev, open_attempts, events,
                 record_enabled, recording_start_time, audio_data_queue,
                 audio_buffer, pattern_start_time, delivered, pushed, appended,
                 ab_hist, tick_vars, playback_vars, ui_pc>>

  /\ UNCHANGED queued_at_stop
\* lines 1093-1099: set pattern_start_time if it is None, return paContinue
cb_stamp(s) ==
  /\ in_streams[s].pc = "stamp"
  /\ pattern_start_time' = IF pattern_start_time = None
                           THEN in_streams[s].frame[1] ELSE pattern_start_time
  /\ in_streams' = [in_streams EXCEPT ![s].pc = "idle", ![s].frame = <<>>]
  /\ UNCHANGED <<audio_listening, audio_recording, audio_stream, audio, pa_term,
                 selected_device_index, sample_rate_var, channels_var, dev, open_attempts, events,
                 record_enabled, recording_start_time, audio_data_queue,
                 audio_buffer, time_pattern_buffer, delivered, pushed, appended,
                 ab_hist, tp_hist, tick_vars, playback_vars, ui_pc>>

  /\ UNCHANGED queued_at_stop
audio_callback ==
  \E s \in DOMAIN in_streams : cb_enter(s) \/ cb_put(s) \/ cb_extend(s) \/ cb_stamp(s)

(* --------------------------- render tick ------------------------------ *)
\* a pending root.after(50, self.update_visualization) fires
tick_fire ==
  /\ ui_pc = "idle"
  /\ ticks > 0
  /\ ticks' = ticks - 1
  /\ ui_pc' = "t_check"
  /\ UNCHANGED <<capture_vars, buffer_vars, t_last, envelope, pattern_plot,
                 playback_vars>>

\* a tick that takes a session to be active whatever the flags say
TickActiveAlways == TRUE

\* lines 1103 and 1146: self.audio_recording or self.audio_listening
TickActive == audio_recording \/ audio_listening

\* lines 1103-1108
t_check ==
  /\ ui_pc = "t_check"
  /\ ui_pc' = IF TickActive THEN "t_drain" ELSE "idle"
  /\ t_last' = <<>>
  /\ UNCHANGED <<capture_vars, buffer_vars, ticks, envelope, pattern_plot,
                 playback_vars>>

\* the frames one pass of the drain loop takes off the queue: a drain that
\* keeps only the newest queued frame
DrainTakeNewest(q) == q[Len(q)]

\* audio_data = self.audio_data_queue.get(): the oldest queued frame
DrainTake(q) == Head(q)

\* lines 1109-1111: one pass of the drain loop, or its exit
t_drain ==
  /\ ui_pc = "t_drain"
  /\ IF audio_data_queue # <<>>
     THEN /\ t_last' = DrainTake(audio_data_queue)
          /\ audio_data_queue' = Tail(audio_data_queue)
          /\ audio_buffer' =
               DequeExtend(audio_buffer, DrainTake(audio_data_queue), AudioBufferMaxlen)
          /\ appended' = appended \o DrainTake(audio_data_queue)
          /\ ab_hist' = ab_hist \o DrainTake(audio_data_queue)
          /\ queued_at_stop' = IF queued_at_stop > 0 THEN queued_at_stop - 1 ELSE 0
          /\ ui_pc' = "t_drain"
     ELSE /\ ui_pc' = "t_plot"
          /\ UNCHANGED <<t_last, audio_data_queue, audio_buffer, appended, ab_hist,
                         queued_at_stop>>
  /\ UNCHANGED <<capture_vars, time_pattern_buffer, pattern_start_time, delivered,
                 pushed, tp_hist, ticks, envelope, pattern_plot, playback_vars>>

\* lines 1113-1131: which panels this tick draws
t_plot ==
  /\ ui_pc = "t_plot"
  /\ ui_pc' = IF t_last # <<>> /\ Len(audio_buffer) > MinBuffer
              THEN IF Len(time_pattern_buffer) > MinPattern THEN "t_pattern"
                   ELSE IF Len(time_pattern_buffer) > MinEnvelope THEN "t_envelope"
                   ELSE "t_resched"
              ELSE "t_resched"
  /\ UNCHANGED <<capture_vars, buffer_vars, tick_vars, playback_vars>>

\* seq[i::step] of Python, i counted from 1: the items at i, i + step, ...
RECURSIVE SliceFrom(_, _, _)
SliceFrom(seq, i, step) ==
  IF i > Len(seq) THEN <<>> ELSE <<seq[i]>> \o SliceFrom(seq, i + step, step)

\* line 1191: np.arange(len(pattern_data)) / sample_rate; the k-th instant is
\* kept as the sample number and the rate it is divided by
TimeAxis(n, sample_rate) == [k \in 1..n |-> [num |-> k - 1, den |-> sample_rate]]

\* a stride that rounds up, so that no more than the budget is ever drawn
StrideRoundUp(n) == (n + DisplayBudget - 1) \div DisplayBudget

\* line 1195: step = len(pattern_data) // 10000
Stride(n) == n \div DisplayBudget

\* lines 1183-1200: the series _plot_time_pattern hands to waveform_ax2.plot;
\* the panel was cleared at 1180 and stays empty on the early return of 1185-1187
PatternSeries(pattern_data, sample_rate) ==
  LET n == Len(pattern_data)
      time_axis == TimeAxis(n, sample_rate)
  IN IF n < MinEnvelope THEN NoPlot
     ELSE IF n > DisplayBudget
          THEN [time_axis |-> SliceFrom(time_axis, 1, Stride(n)),
                data |-> SliceFrom(pattern_data, 1, Stride(n))]
          ELSE [time_axis |-> time_axis, data |-> pattern_data]

\* lines 1127, 1178-1213: _plot_time_pattern reads list(self.time_pattern_buffer)
t_pattern ==
  /\ ui_pc = "t_pattern"
  /\ pattern_plot' = PatternSeries(time_pattern_buffer, sample_rate_var)
  /\ ui_pc' = IF Len(time_pattern_buffer) > MinEnvelope THEN "t_envelope" ELSE "t_resched"
  /\ UNCHANGED <<capture_vars, buffer_vars, t_last, ticks, envelope, playback_vars>>

\* np.int16 arithmetic keeps 16 bits, two's complement
Wrap16(v) == ((v + 32768) % 65536) - 32768

\* np.square on an array of np.int16: the result is np.int16 again
Square16(x) == Wrap16(x * x)

RECURSIVE SumSquares(_)
SumSquares(w) == IF w = <<>> THEN 0 ELSE Square16(Head(w)) + SumSquares(Tail(w))

\* pattern_data[i:i+window_size] for the k-th window, k from 1
Window(data, k) ==
  SubSeq(data, (k - 1) * WindowSize + 1, Min(k * WindowSize, Len(data)))

\* np.sqrt(np.mean(np.square(window))): the mean is taken in floating point over
\* the squares as np.square returned them.  The value is kept as the sum of the
\* squares and their number; it is sqrt(sumsq / n), and NaN when sumsq < 0
Rms(window) == [sumsq |-> SumSquares(window), n |-> Len(window)]

\* lines 1225-1236: one RMS value per window of window_size samples
Envelope(data) ==
  [k \in 1..((Len(data) + WindowSize - 1) \div WindowSize) |-> Rms(Window(data, k))]

\* lines 1131, 1215-1251: _plot_amplitude_envelope clears the panel, reads
\* list(self.time_pattern_buffer) and draws the envelope if it has two values
t_envelope ==
  /\ ui_pc = "t_envelope"
  /\ envelope' = IF Len(Envelope(time_pattern_buffer)) > 1
                 THEN Envelope(time_pattern_buffer) ELSE <<>>
  /\ ui_pc' = "t_resched"
  /\ UNCHANGED <<capture_vars, buffer_vars, t_last, ticks, pattern_plot, playback_vars>>


\* lines 1146-1147
t_resched ==
  /\ ui_pc = "t_resched"
  /\ ticks' = IF TickActive THEN ticks + 1 ELSE ticks
  /\ t_last' = <<>>
  /\ ui_pc' = "idle"
  /\ UNCHANGED <<capture_vars, buffer_vars, envelope, pattern_plot, playback_vars>>

update_visualization ==
  t_check \/ t_drain \/ t_plot \/ t_pattern \/ t_envelope \/ t_resched


(* ----------------------------- playback ------------------------------- *)
\* the number of chunks of a clip: range(0, len(audio_bytes), chunk_size * 2)
NChunks(clip) == (Len(clip) + ChunkSize - 1) \div ChunkSize

\* at_start remembers the clip as start_playback saw it (line 903)
NewThread == [pc |-> "start", clip |-> <<>>, i |-> 0, stop_at |-> -1, late |-> FALSE,
              stream |-> None, at_start |-> audio_buffer]

\* a start that never takes the clip for empty
ClipEmptyNever == FALSE

\* line 898: len(self.audio_buffer) == 0
ClipEmpty == Len(audio_buffer) = 0

\* lines 912-918: the output stream is opened with rate=16000, channels=1
PlaybackFormat == <<16000, 1>>

\* lines 897-923 of start_playback
start_playback_body ==
  /\ Len(ppa_term) < MaxPlay
  /\ IF ClipEmpty
     THEN \* messagebox.showwarning("No audio recorded to play back!"); return
          /\ ui_pc' = "idle"
          /\ UNCHANGED <<playback_audio, ppa_term, playback_stream, out_streams, threads>>
     ELSE /\ playback_audio' = Len(ppa_term) + 1
          /\ ppa_term' = Append(ppa_term, "live")
          /\ \E opened \in BOOLEAN :
               IF opened
               THEN /\ out_streams' = Append(out_streams,
                                             [pa |-> Len(ppa_term) + 1, open |-> TRUE,
                                              cfg |-> PlaybackFormat])
                    /\ playback_stream' = Len(out_streams) + 1
                    /\ threads' = Append(threads, NewThread)
                    /\ ui_pc' = "sp_flag"
               ELSE \* get_default_output_device_info or open raises: logged
                    /\ ui_pc' = "idle"
                    /\ UNCHANGED <<playback_stream, out_streams, threads>>
  /\ UNCHANGED <<capture_vars, buffer_vars, tick_vars, audio_playing, fin_pending,
                 playback_enabled, file_vars>>

\* lines 925-928
sp_flag ==
  /\ ui_pc = "sp_flag"
  /\ audio_playing' = TRUE
  /\ ui_pc' = "idle"
  /\ UNCHANGED <<capture_vars, buffer_vars, tick_vars, playback_stream, playback_audio,
                 ppa_term, out_streams, threads, fin_pending, playback_enabled, file_vars>>

\* line 936 of stop_playback; the threads still running are marked with the
\* number of chunks they have written when the stop is requested
stop_playback_body ==
  /\ audio_playing' = FALSE
  /\ threads' = [t \in DOMAIN threads |->
                   IF threads[t].pc # "done" /\ threads[t].stop_at = -1
                   THEN [threads[t] EXCEPT !.stop_at = threads[t].i]
                   ELSE threads[t]]
  /\ ui_pc' = "xp_close"
  /\ UNCHANGED <<capture_vars, buffer_vars, tick_vars, playback_stream, playback_audio,
                 ppa_term, out_streams, fin_pending, playback_enabled, file_vars>>

\* lines 938-940: stop_stream(); close()
xp_close ==
  /\ ui_pc = "xp_close"
  /\ IF playback_stream # None
     THEN /\ out_streams' = [out_streams EXCEPT ![playback_stream].open = FALSE]
          /\ ui_pc' = "xp_none"
     ELSE /\ ui_pc' = "xp_term"
          /\ UNCHANGED out_streams
  /\ UNCHANGED <<capture_vars, buffer_vars, tick_vars, audio_playing, playback_stream,
                 playback_audio, ppa_term, threads, fin_pending, playback_enabled, file_vars>>

\* line 941: self.playback_stream = None
xp_none ==
  /\ ui_pc = "xp_none"
  /\ playback_stream' = None
  /\ ui_pc' = "xp_term"
  /\ UNCHANGED <<capture_vars, buffer_vars, tick_vars, audio_playing, playback_audio,
                 ppa_term, out_streams, threads, fin_pending, playback_enabled, file_vars>>

\* lines 943-949: terminate(); self.playback_audio = None
xp_term ==
  /\ ui_pc = "xp_term"
  /\ IF playback_audio # None
     THEN /\ ppa_term' = TermCount(ppa_term, playback_audio)
          /\ out_streams' = CloseOwned(out_streams, playback_audio)
          /\ playback_audio' = None
     ELSE UNCHANGED <<ppa_term, out_streams, playback_audio>>
  /\ ui_pc' = "idle"
  /\ UNCHANGED <<capture_vars, buffer_vars, tick_vars, audio_playing, playback_stream,
                 threads, fin_pending, playback_enabled, file_vars>>

\* lines 955-956: the thread converts self.audio_buffer to bytes
pt_start(t) ==
  /\ threads[t].pc = "start"
  /\ threads' = [threads EXCEPT ![t].pc = "check", ![t].clip = audio_buffer]
  /\ UNCHANGED <<capture_vars, buffer_vars, tick_vars, audio_playing, playback_stream,
                 playback_audio, ppa_term, out_streams, fin_pending, playback_enabled, file_vars,
                 ui_pc>>

\* line 961: if not self.audio_playing: break
KeepPlaying == audio_playing

\* lines 960-962 and 969: the loop head and the cancellation check; leaving the
\* loop schedules _playback_finished
pt_check(t) ==
  /\ threads[t].pc = "check"
  /\ IF threads[t].i < NChunks(threads[t].clip) /\ KeepPlaying
     THEN /\ threads' = [threads EXCEPT ![t].pc = "write"]
          /\ UNCHANGED fin_pending
     ELSE /\ threads' = [threads EXCEPT ![t].pc = "done"]
          /\ fin_pending' = fin_pending + 1
  /\ UNCHANGED <<capture_vars, buffer_vars, tick_vars, audio_playing, playback_stream,
                 playback_audio, ppa_term, out_streams, playback_enabled, file_vars, ui_pc>>

\* lines 964-966 and 971-973: self.playback_stream.write(chunk).  With
\* playback_stream None the attribute lookup raises; on a closed stream write
\* is called and raises; either way the except branch schedules _playback_finished
pt_write(t) ==
  /\ threads[t].pc = "write"
  /\ IF playback_stream # None /\ out_streams[playback_stream].open
     THEN /\ threads' = [threads EXCEPT ![t].pc = "check",
                                        ![t].i = threads[t].i + 1,
                                        ![t].late = @ \/ threads[t].stop_at # -1,
                                        ![t].stream = playback_stream]
          /\ UNCHANGED fin_pending
     ELSE /\ threads' = [threads EXCEPT ![t].pc = "done",
                                        ![t].late = @ \/ (playback_stream # None
                                                          /\ threads[t].stop_at # -1)]
          /\ fin_pending' = fin_pending + 1
  /\ UNCHANGED <<capture_vars, buffer_vars, tick_vars, audio_playing, playback_stream,
                 playback_audio, ppa_term, out_streams, playback_enabled, file_vars, ui_pc>>

_playback_thread == \E t \in DOMAIN threads : pt_start(t) \/ pt_check(t) \/ pt_write(t)

\* lines 975-980, run by the main loop for a pending root.after(0, ...)
_playback_finished ==
  /\ ui_pc = "idle"
  /\ fin_pending > 0
  /\ fin_pending' = fin_pending - 1
  /\ audio_playing' = FALSE
  /\ UNCHANGED <<capture_vars, buffer_vars, tick_vars, playback_stream, playback_audio,
                 ppa_term, out_streams, threads, playback_enabled, file_vars, ui_pc>>

(* --------------------------- WAV export ------------------------------- *)
\* tobytes() that puts the most significant byte of a sample first
ToBytesBigEndian(x) == << (x % 65536) \div 256, (x % 65536) % 256 >>

\* np.int16 tobytes(), as wave writes it: two bytes per sample, two's
\* complement, least significant byte first
ToBytes(x) == << (x % 65536) % 256, (x % 65536) \div 256 >>

\* line 1319, 1325: np.array(list(self.audio_buffer), dtype=np.int16).tobytes()
RECURSIVE AllBytes(_)
AllBytes(samples) ==
  IF samples = <<>> THEN <<>> ELSE ToBytes(Head(samples)) \o AllBytes(Tail(samples))

\* lines 1321-1325: the header fields set, sampwidth 2, and writeframes, which
\* writes every byte it is given and records their number as the data size
WavWrite(nchannels, framerate, bytes) ==
  [exists |-> TRUE, nchannels |-> nchannels, framerate |-> framerate, data |-> bytes]

\* wav_file.getnframes(): the data size divided by the frame size
\* nchannels * sampwidth, rounded down
GetNFrames(f) == Len(f.data) \div (f.nchannels * 2)

\* wav_file.readframes(n): the first n * nchannels * sampwidth bytes of the data
ReadFrames(f, n) == SubSeq(f.data, 1, Min(n * f.nchannels * 2, Len(f.data)))

\* lines 1306-1332; the file dialog returns a name or is cancelled
save_recording ==
  /\ ui_pc = "idle"
  /\ IF audio_buffer = <<>>
     THEN \* messagebox.showwarning("No audio data to save"); return
          UNCHANGED wav_file
     ELSE \E chosen \in BOOLEAN :
            wav_file' = IF chosen
                        THEN WavWrite(channels_var, sample_rate_var, AllBytes(audio_buffer))
                        ELSE wav_file
  /\ UNCHANGED <<capture_vars, buffer_vars, tick_vars, audio_playing, playback_stream,
                 playback_audio, ppa_term, out_streams, threads, fin_pending,
                 playback_enabled, loaded_audio_data, loaded_audio_file, ui_pc>>

\* lines 1060-1077; the file chosen is the one save_recording wrote
load_audio_file ==
  /\ ui_pc = "idle"
  /\ wav_file.exists
  /\ loaded_audio_data' = ReadFrames(wav_file, GetNFrames(wav_file))
  /\ loaded_audio_file' = 1
  /\ UNCHANGED <<capture_vars, buffer_vars, tick_vars, audio_playing, playback_stream,
                 playback_audio, ppa_term, out_streams, threads, fin_pending,
                 playback_enabled, wav_file, ui_pc>>

(* ------------------------- other UI handlers -------------------------- *)
\* lines 1298-1304 (and 1026 of clear_recording): self.audio_buffer.clear()
clear_audio_data ==
  /\ ui_pc = "idle"
  /\ audio_buffer' = <<>>
  /\ ab_hist' = <<>>
  /\ UNCHANGED <<capture_vars, audio_data_queue, time_pattern_buffer, pattern_start_time,
                 delivered, pushed, appended, tp_hist, tick_vars, playback_vars, ui_pc>>

  /\ UNCHANGED queued_at_stop
\* lines 1831-1845: the user picks a device in the combobox
on_device_selected ==
  /\ ui_pc = "idle"
  /\ selected_device_index = None
  /\ selected_device_index' = 1
  /\ UNCHANGED <<audio_listening, audio_recording, audio_stream, audio, pa_term,
                 in_streams, sample_rate_var, channels_var, dev, open_attempts, events, record_enabled,
                 recording_start_time, buffer_vars, tick_vars, playback_vars, ui_pc>>

(* ------------------------- calls and buttons -------------------------- *)
start_listening == ui_pc = "idle" /\ start_listening_body
start_recording == ui_pc = "idle" /\ start_recording_body
stop_listening == ui_pc = "idle" /\ stop_listening_body
stop_recording == ui_pc = "idle" /\ stop_recording_body
start_playback == ui_pc = "idle" /\ start_playback_body
stop_playback == ui_pc = "idle" /\ stop_playback_body

\* lines 649-654, the LISTEN button
toggle_listening ==
  IF audio_listening THEN stop_listening ELSE start_listening

\* lines 597-602, the RECORD button
toggle_recording ==
  /\ record_enabled
  /\ IF ~audio_recording THEN start_recording ELSE stop_recording

\* lines 656-661, the PLAYBACK button
toggle_playback ==
  /\ playback_enabled
  /\ IF audio_playing THEN stop_playback ELSE start_playback

\* the steps that continue the handler running on the UI context
ui_step ==
  \/ sl_flag \/ sr_flag \/ xl_flag \/ xl_clear \/ xl_stamp \/ xr_flag
  \/ sp_flag \/ xp_close \/ xp_none \/ xp_term
  \/ update_visualization

\* the events the main loop runs by itself, and the other threads
background ==
  \/ ui_step \/ tick_fire \/ _playback_finished
  \/ audio_callback \/ _playback_thread

\* the methods called in any order
Next ==
  \/ start_listening \/ stop_listening \/ start_recording \/ stop_recording
  \/ start_playback \/ stop_playback \/ clear_audio_data \/ on_device_selected
  \/ save_recording \/ load_audio_file
  \/ background

Spec == Init /\ [][Next]_vars

\* the application driven through its buttons
NextUI ==
  \/ toggle_listening \/ toggle_recording \/ toggle_playback
  \/ clear_audio_data \/ on_device_selected
  \/ background

SpecUI == Init /\ [][NextUI]_vars


\* the capture side alone: its methods called in any order, the drivers, the tick
capture_background ==
  \/ sl_flag \/ sr_flag \/ xl_flag \/ xl_clear \/ xl_stamp \/ xr_flag
  \/ update_visualization \/ tick_fire \/ audio_callback

\* the capture side runs against a shared device that takes the requested
\* config only, or against one that takes none
CaptureDevices ==
  {d \in Devices : /\ d.defaultSampleRate = 48000
                   /\ d.maxInputChannels = 4
                   /\ d.accepts \in {{Requested}, {}}
                   /\ ~d.exclusive}

InitCapture == Init /\ dev \in CaptureDevices

NextCapture ==
  \/ start_listening \/ stop_listening \/ start_recording \/ stop_recording
  \/ clear_audio_data \/ on_device_selected
  \/ capture_background

SpecCapture == InitCapture /\ [][NextCapture]_vars

\* the capture side driven through the LISTEN and RECORD buttons
NextCaptureUI ==
  \/ toggle_listening \/ toggle_recording
  \/ clear_audio_data \/ on_device_selected
  \/ capture_background

SpecCaptureUI == InitCapture /\ [][NextCaptureUI]_vars


\* negotiation alone: the LISTEN and RECORD buttons against every device, the
\* drivers delivering no frame meanwhile
NextNegotiate ==
  \/ toggle_listening \/ toggle_recording \/ on_device_selected
  \/ sl_flag \/ sr_flag \/ xl_flag \/ xl_clear \/ xl_stamp \/ xr_flag
  \/ t_check \/ t_drain \/ t_plot \/ t_resched \/ tick_fire

SpecNegotiate == Init /\ [][NextNegotiate]_vars

(* --------------------------- envelope alone --------------------------- *)
\* 16-bit samples a driver may deliver: loud ones, zero, and values around
\* the ones whose square no longer fits 16 bits
SampleValues == {-20000, -200, -1, 0, 1, 181, 182, 256, 20000}

SampleSeqs(n) == [1..n -> SampleValues]

\* A listening session on a shared device that took the requested config: the
\* driver has delivered the samples data, a render tick has just drained them
\* and is about to draw its panels.
InitEnvelope ==
  /\ audio_listening = TRUE
  /\ audio_recording = FALSE
  /\ audio_stream = 1
  /\ audio = 2
  /\ pa_term = <<"live", "live">>
  /\ in_streams = <<NewStream(2, Requested)>>
  /\ selected_device_index = 1
  /\ sample_rate_var = Requested[1]
  /\ channels_var = Requested[2]
  /\ dev = [defaultSampleRate |-> 48000, maxInputChannels |-> 4,
            accepts |-> {<<16000, 2>>}, exclusive |-> FALSE]
  /\ record_enabled = TRUE
  /\ playback_enabled = FALSE
  /\ recording_start_time = None
  /\ audio_data_queue = <<>>
  /\ \E n \in (MinEnvelope + 1)..TimePatternMaxlen : \E data \in SampleSeqs(n) :
       /\ time_pattern_buffer = data
       /\ tp_hist = data
       /\ audio_buffer = DequeExtend(<<>>, data, AudioBufferMaxlen)
       /\ ab_hist = data
       /\ pushed = data
       /\ appended = data
       /\ t_last = data
  /\ pattern_start_time = 1
  /\ ui_pc = "t_plot"
  /\ ticks = 0
  /\ envelope = <<>>
  /\ pattern_plot = NoPlot
  /\ delivered = MaxFrames
  /\ audio_playing = FALSE
  /\ playback_stream = None
  /\ playback_audio = None
  /\ ppa_term = <<>>
  /\ out_streams = <<>>
  /\ threads = <<>>
  /\ fin_pending = 0
  /\ open_attempts = 1
  /\ queued_at_stop = 0
  /\ events = <<"probe_open", "probe_close", "capture_open">>
  /\ wav_file = NoFile
  /\ loaded_audio_data = <<>>
  /\ loaded_audio_file = None

NextEnvelope ==
  \/ tick_fire \/ t_check \/ t_drain \/ t_plot \/ t_pattern \/ t_envelope \/ t_resched

SpecEnvelope == InitEnvelope /\ [][NextEnvelope]_vars

(* ------------------------- pattern view alone ------------------------- *)
\* deque(maxlen=50000) of time_pattern_buffer is five display budgets of 10000;
\* the pattern view is run with the two in that proportion
PatternCapacity == 5 * DisplayBudget

\* samples that tell their position: the i-th is i above the first
PatternOffsets == {-7, 0, 100}
PatternRamp(n, off) == [i \in 1..n |-> off + i]

\* A listening session on a shared device whose negotiation ended at the
\* config cfg: the driver has delivered the samples data, a render tick has
\* just drained them and is about to draw its panels.
InitPattern ==
  /\ audio_listening = TRUE
  /\ audio_recording = FALSE
  /\ audio_stream = 1
  /\ audio = 2
  /\ pa_term = <<"live", "live">>
  /\ selected_device_index = 1
  /\ \E cfg \in ProbedConfigs :
       /\ sample_rate_var = cfg[1]
       /\ channels_var = cfg[2]
       /\ dev = [defaultSampleRate |-> 48000, maxInputChannels |-> 4,
                 accepts |-> {cfg}, exclusive |-> FALSE]
       /\ in_streams = <<NewStream(2, cfg)>>
       /\ events = StartEvents(dev, Requested[1], Requested[2])
  /\ record_enabled = TRUE
  /\ playback_enabled = FALSE
  /\ recording_start_time = None
  /\ audio_data_queue = <<>>
  /\ \E n \in (MinPattern + 1)..PatternCapacity : \E off \in PatternOffsets :
       /\ time_pattern_buffer = PatternRamp(n, off)
       /\ tp_hist = PatternRamp(n, off)
       /\ audio_buffer = DequeExtend(<<>>, PatternRamp(n, off), AudioBufferMaxlen)
       /\ ab_hist = PatternRamp(n, off)
       /\ pushed = PatternRamp(n, off)
       /\ appended = PatternRamp(n, off)
       /\ t_last = PatternRamp(n, off)
       /\ pattern_start_time = off + 1
  /\ ui_pc = "t_plot"
  /\ ticks = 0
  /\ envelope = <<>>
  /\ pattern_plot = NoPlot
  /\ delivered = MaxFrames
  /\ audio_playing = FALSE
  /\ playback_stream = None
  /\ playback_audio = None
  /\ ppa_term = <<>>
  /\ out_streams = <<>>
  /\ threads = <<>>
  /\ fin_pending = 0
  /\ open_attempts = 1
  /\ queued_at_stop = 0
  /\ wav_file = NoFile
  /\ loaded_audio_data = <<>>
  /\ loaded_audio_file = None

NextPattern ==
  \/ tick_fire \/ t_check \/ t_drain \/ t_plot \/ t_pattern \/ t_envelope \/ t_resched

SpecPattern == InitPattern /\ [][NextPattern]_vars

(* ---------------------------- export alone ---------------------------- *)
\* A listening session that was stopped with the samples data in audio_buffer,
\* on a shared device whose negotiation ended at the config cfg.
InitWav ==
  /\ audio_listening = FALSE
  /\ audio_recording = FALSE
  /\ audio_stream = None
  /\ audio = 2
  /\ pa_term = <<"live", "terminated">>
  /\ selected_device_index = 1
  /\ \E cfg \in ProbedConfigs :
       /\ sample_rate_var = cfg[1]
       /\ channels_var = cfg[2]
       /\ dev = [defaultSampleRate |-> 48000, maxInputChannels |-> 4,
                 accepts |-> {cfg}, exclusive |-> FALSE]
       /\ in_streams = <<[NewStream(2, cfg) EXCEPT !.open = FALSE]>>
       /\ events = StartEvents(dev, Requested[1], Requested[2])
  /\ record_enabled = FALSE
  /\ playback_enabled = FALSE
  /\ recording_start_time = None
  /\ audio_data_queue = <<>>
  /\ \E n \in 0..AudioBufferMaxlen : \E data \in SampleSeqs(n) :
       /\ audio_buffer = data
       /\ ab_hist = data
       /\ pushed = data
       /\ appended = data
  /\ time_pattern_buffer = <<>>
  /\ tp_hist = <<>>
  /\ pattern_start_time = None
  /\ ui_pc = "idle"
  /\ t_last = <<>>
  /\ ticks = 0
  /\ envelope = <<>>
  /\ pattern_plot = NoPlot
  /\ delivered = MaxFrames
  /\ audio_playing = FALSE
  /\ playback_stream = None
  /\ playback_audio = None
  /\ ppa_term = <<>>
  /\ out_streams = <<>>
  /\ threads = <<>>
  /\ fin_pending = 0
  /\ open_attempts = 1
  /\ queued_at_stop = 0
  /\ wav_file = NoFile
  /\ loaded_audio_data = <<>>
  /\ loaded_audio_file = None

NextWav == save_recording \/ load_audio_file

SpecWav == InitWav /\ [][NextWav]_vars

(* --------------------------- playback alone --------------------------- *)
\* The state the buttons reach by LISTEN, one frame captured and drained,
\* RECORD, RECORD (stop) and LISTEN (stop): a clip is recorded, the PLAYBACK
\* button is enabled, the capture side is idle.  The first capture stream,
\* replaced by start_recording, is still open.
Clip == DequeExtend(<<>>, Frame(1), AudioBufferMaxlen)

InitPlayback ==
  /\ audio_listening = FALSE
  /\ audio_recording = FALSE
  /\ audio_stream = None
  /\ audio = 3
  /\ pa_term = <<"live", "live", "terminated_again">>
  /\ in_streams = <<[NewStream(2, Requested) EXCEPT !.open = TRUE],
                    [NewStream(3, Requested) EXCEPT !.open = FALSE]>>
  /\ selected_device_index = 1
  /\ sample_rate_var = Requested[1]
  /\ channels_var = Requested[2]
  /\ dev = [defaultSampleRate |-> 48000, maxInputChannels |-> 4,
            accepts |-> {<<16000, 2>>}, exclusive |-> FALSE]
  /\ record_enabled = FALSE
  /\ playback_enabled = TRUE
  /\ recording_start_time = None
  /\ audio_data_queue = <<>>
  /\ audio_buffer = Clip
  /\ time_pattern_buffer = <<>>
  /\ pattern_start_time = None
  /\ ui_pc = "idle"
  /\ t_last = <<>>
  /\ ticks = 0
  /\ envelope = <<>>
  /\ pattern_plot = NoPlot
  /\ delivered = 1
  /\ audio_playing = FALSE
  /\ playback_stream = None
  /\ playback_audio = None
  /\ ppa_term = <<>>
  /\ out_streams = <<>>
  /\ threads = <<>>
  /\ fin_pending = 0
  /\ pushed = Frame(1)
  /\ appended = Frame(1)
  /\ ab_hist = Frame(1)
  /\ tp_hist = <<>>
  /\ open_attempts = 2
  /\ queued_at_stop = 0
  /\ events = <<"probe_open", "probe_close", "capture_open">>
  /\ wav_file = NoFile
  /\ loaded_audio_data = <<>>
  /\ loaded_audio_file = None

\* InitPlayback is a state the buttons reach: as an invariant of SpecCaptureUI
\* this is violated, by the run described above
InitPlaybackUnreached == ~InitPlayback

NextPlayback ==
  \/ toggle_playback \/ clear_audio_data
  \/ sp_flag \/ xp_close \/ xp_none \/ xp_term
  \/ _playback_finished \/ _playback_thread

SpecPlayback == InitPlayback /\ [][NextPlayback]_vars


\* the capture side through its buttons, with the main loop running what is due:
\* a handler that has started runs on, and a pending tick is run
capture_ui_step ==
  \/ sl_flag \/ sr_flag \/ xl_flag \/ xl_clear \/ xl_stamp \/ xr_flag
  \/ update_visualization

SpecCaptureLive ==
  SpecCaptureUI /\ WF_vars(capture_ui_step) /\ WF_vars(tick_fire)

(* ============================== claims ================================ *)
CaptureIdle == ~audio_listening /\ ~audio_recording /\ audio_stream = None

\* C1: at most one capture stream (opened with stream_callback=audio_callback)
\* is open at any time.
C1_OneCaptureStream == Cardinality(OpenCapture) <= 1

\* C2: a start_listening or start_recording made while a capture stream is
\* streaming fails: the handler returns, and the stream handle, the session
\* flags and the configuration stay as they were.
C2_StartWhileStreamingRejected ==
  [][((start_listening \/ start_recording)
        /\ audio_stream # None /\ in_streams[audio_stream].open)
      => (/\ ui_pc' = "idle"
          /\ UNCHANGED <<audio_stream, in_streams, audio_listening, audio_recording,
                         sample_rate_var, channels_var>>)]_vars

\* C3: stop_listening or stop_recording called while the capture session is
\* already stopped is a no-op: no handle is released a second time, and the
\* flags, the stream handle and the streams stay as they were.
C3_IdleStopIsNoOp ==
  [][((stop_listening \/ stop_recording) /\ CaptureIdle)
      => (/\ \A p \in DOMAIN pa_term :
                pa_term'[p] = "terminated_again" => pa_term[p] = "terminated_again"
          /\ UNCHANGED <<audio_stream, in_streams, audio_listening, audio_recording>>)]_vars

\* C4: once stop_playback has been called with k chunks written, the playback
\* thread never calls write again (for chunk k+1), on any stream.
C4_NoWriteAfterStop == \A t \in DOMAIN threads : ~threads[t].late

PlaybackIdle ==
  /\ ~audio_playing
  /\ ui_pc = "idle"
  /\ fin_pending = 0
  /\ \A t \in DOMAIN threads : threads[t].pc = "done"

\* the thread wrote every chunk of its clip / was running when stop_playback was called
Completed(t) == threads[t].pc = "done" /\ threads[t].i = NChunks(threads[t].clip)
                  /\ threads[t].i > 0
Stopped(t) == threads[t].pc = "done" /\ threads[t].stop_at # -1

\* C5: when the playback session is back to not-playing, after natural
\* completion as after stop_playback, every output stream a playback opened is
\* closed and its PyAudio instance terminated.
C5_TerminalReleasesDevice ==
  (PlaybackIdle /\ \E t \in DOMAIN threads : Completed(t) \/ Stopped(t)) =>
    \A s \in DOMAIN out_streams :
      ~out_streams[s].open /\ ppa_term[out_streams[s].pa] # "live"

AbleToWrite(t) ==
  /\ threads[t].pc = "write"
  /\ playback_stream # None
  /\ out_streams[playback_stream].open

\* C6: at any time at most one playback thread is able to write chunks to an
\* output stream.
C6_OnePlaybackWriter == Cardinality({t \in DOMAIN threads : AbleToWrite(t)}) <= 1

\* buf holds the last min(Len(hist), cap) samples of hist, oldest first
HoldsLast(buf, hist, cap) ==
  /\ Len(buf) = Min(Len(hist), cap)
  /\ \A i \in 1..Len(buf) : buf[i] = hist[Len(hist) - Len(buf) + i]

\* C7: each ring history holds exactly the last min(T, C) of the T samples
\* appended to it since it was last cleared, oldest first; its length never
\* exceeds its capacity C.
C7_RingHoldsLast ==
  /\ HoldsLast(audio_buffer, ab_hist, AudioBufferMaxlen)
  /\ HoldsLast(time_pattern_buffer, tp_hist, TimePatternMaxlen)

\* both histories have overflowed, the long-term one by exactly one sample:
\* C+1 samples appended to the empty history, samples 2..C+1 left
C7_Witness ==
  /\ Len(ab_hist) > AudioBufferMaxlen
  /\ Len(tp_hist) = TimePatternMaxlen + 1
  /\ time_pattern_buffer = Tail(tp_hist)

\* the samples of a sequence of frames, in order
RECURSIVE Flatten(_)
Flatten(q) == IF q = <<>> THEN <<>> ELSE Head(q) \o Flatten(Tail(q))

\* C8: the samples the ticks appended to the short-term history, followed by
\* the frames still queued, are exactly the frames the callback pushed, in
\* push order: none lost, duplicated or reordered.
C8_FifoHandOff == appended \o Flatten(audio_data_queue) = pushed

\* a tick is draining with one frame already appended and another one, pushed
\* by a callback meanwhile, still queued
C8_Witness ==
  /\ ui_pc = "t_drain"
  /\ Len(appended) = FrameLen
  /\ Len(audio_data_queue) = 1

\* C9: the capture callback is never at its write of time_pattern_buffer while
\* the render tick is inside its reads of the same buffer.
C9_CallbackExcludedFromReaders ==
  ~(/\ ui_pc \in {"t_pattern", "t_envelope"}
    /\ \E s \in DOMAIN in_streams : in_streams[s].pc = "extend")

\* C10: a tick is scheduled only while a capture session is active, and once
\* audio_listening and audio_recording are False for good, eventually no tick
\* is pending.
C10_TickChainEnds ==
  /\ [][ticks' > ticks => (audio_listening \/ audio_recording)]_vars
  /\ (<>[](~audio_listening /\ ~audio_recording)) => <>[](ticks = 0)

\* a session was stopped with a tick still pending
C10_Witness == ~audio_listening /\ ~audio_recording /\ ticks > 0 /\ ui_pc = "idle"

\* C11: whenever the capture session is idle and no handler is running, every
\* capture stream a start opened is closed and every PyAudio instance a start
\* created (the instances after the one of __init__) is terminated.
C11_HandlesReleasedWhenIdle ==
  (CaptureIdle /\ ui_pc = "idle") =>
    /\ OpenCapture = {}
    /\ \A p \in 2..Len(pa_term) : pa_term[p] # "live"

\* the order of C12: requested, device default, then the four mono rates
ClaimedOrder(d, rate, ch) ==
  << <<rate, ch>>, <<d.defaultSampleRate, Min(d.maxInputChannels, 2)>>,
     <<44100, 1>>, <<48000, 1>>, <<16000, 1>>, <<8000, 1>> >>
Accepted(d, order) == {i \in DOMAIN order : Probe(d, order[i])}
FirstAccepted(d, order) ==
  order[CHOOSE i \in Accepted(d, order) : \A j \in Accepted(d, order) : i <= j]

\* C12: a start with a device selected opens a capture stream exactly when the
\* device accepts one of the configs of the order [requested, device default,
\* (44100,1), (48000,1), (16000,1), (8000,1)], and the stream is opened with
\* the first config of that order the device accepts.
C12_FirstAcceptedConfigOpens ==
  [][LET order == ClaimedOrder(dev, sample_rate_var, channels_var)
     IN /\ (Len(in_streams') > Len(in_streams)) =>
             /\ Accepted(dev, order) # {}
             /\ in_streams'[Len(in_streams')].cfg = FirstAccepted(dev, order)
        /\ ((start_listening \/ start_recording)
              /\ selected_device_index # None /\ Accepted(dev, order) # {})
             => Len(in_streams') > Len(in_streams)]_vars

\* a device that rejects the requested config and accepts both its default and
\* a rate further down the list was opened with its default
C12_Witness ==
  LET def == <<dev.defaultSampleRate, Min(dev.maxInputChannels, 2)>>
  IN /\ Requested \notin dev.accepts
     /\ def \in dev.accepts
     /\ def # <<44100, 1>> /\ <<44100, 1>> \in dev.accepts
     /\ \E s \in DOMAIN in_streams : in_streams[s].cfg = def /\ in_streams[s].open
     /\ audio_listening

\* C13: a start against a device that accepts neither the requested config,
\* nor its default, nor any rate of the fallback list makes no call to open the
\* capture stream, and the session stays idle: both flags False, audio_stream
\* None, the handler returned.
C13_NoOpenWhenNoneCompatible ==
  [][((start_listening \/ start_recording)
        /\ selected_device_index # None
        /\ Accepted(dev, ClaimedOrder(dev, sample_rate_var, channels_var)) = {})
      => (/\ open_attempts' = open_attempts
          /\ CaptureIdle'
          /\ ui_pc' = "idle")]_vars

\* C14: while a capture session is active, from the step after its start to
\* its stop, sample_rate_var and channels_var do not change.
C14_ConfigFixedDuringSession ==
  [][((audio_listening \/ audio_recording) /\ (audio_listening' \/ audio_recording'))
      => UNCHANGED <<sample_rate_var, channels_var>>]_vars

\* C15: start_playback on an empty clip returns at once: no PyAudio instance
\* is created, no output stream is opened, no playback thread is started and
\* audio_playing stays False.
C15_EmptyClipStartsNothing ==
  [][(start_playback /\ Len(audio_buffer) = 0)
      => (/\ UNCHANGED <<playback_audio, ppa_term, playback_stream, out_streams,
                         threads, audio_playing>>
          /\ ~audio_playing'
          /\ ui_pc' = "idle")]_vars

\* the PLAYBACK button is enabled on a clip that was cleared after a playback of
\* it: pressing it is the start of C15, and it leaves this state as it is
C15_Witness ==
  /\ Len(audio_buffer) = 0
  /\ playback_enabled /\ ~audio_playing /\ ui_pc = "idle"
  /\ Len(threads) = 1 /\ Len(ppa_term) = 1
  /\ Len(ppa_term) < MaxPlay

\* C16: a playback plays the clip as it was when start_playback was called:
\* the samples a playback thread has taken to write are the samples
\* audio_buffer held at the start.
C16_ClipReadOnlyDuringPlayback ==
  \A t \in DOMAIN threads :
    threads[t].pc # "start" => threads[t].clip = threads[t].at_start

\* C17: when stop_listening or stop_recording returns, audio_buffer is empty.
C17_BufferClearedOnStop ==
  [][(xl_stamp \/ xr_flag) => audio_buffer' = <<>>]_vars

\* C18: when stop_listening returns, time_pattern_buffer is empty and
\* pattern_start_time is None, and while no listening session has been started
\* again the empty buffer stays empty.
C18_PatternClearedOnStop ==
  [][/\ xl_stamp => (time_pattern_buffer' = <<>> /\ pattern_start_time' = None)
     /\ (ui_pc \notin {"xl_flag", "xl_clear", "xl_stamp"}
           /\ ~audio_listening /\ ~audio_listening' /\ time_pattern_buffer = <<>>)
          => time_pattern_buffer' = <<>>]_vars

\* the sum of the squares of a window, each square taken after widening
RECURSIVE ExactSumSquares(_)
ExactSumSquares(w) ==
  IF w = <<>> THEN 0 ELSE Head(w) * Head(w) + ExactSumSquares(Tail(w))

\* C19: every value of the envelope drawn from time_pattern_buffer is the root
\* of the exact mean of the squares of its window (so 0 for a window of zeros
\* and |A| for a window of constant A), and is never the root of a negative number.
C19_RmsExact ==
  (ui_pc = "t_resched") =>
    \A k \in DOMAIN envelope :
      /\ envelope[k].sumsq = ExactSumSquares(Window(time_pattern_buffer, k))
      /\ envelope[k].sumsq >= 0

\* the 16-bit samples a reader finds in little-endian bytes
RECURSIVE DecodeSamples(_)
DecodeSamples(bytes) ==
  IF Len(bytes) < 2 THEN <<>>
  ELSE LET u == bytes[1] + 256 * bytes[2]
       IN <<IF u >= 32768 THEN u - 65536 ELSE u>> \o DecodeSamples(Tail(Tail(bytes)))

RECURSIVE ProbesOpen(_, _)
ProbesOpen(ev, k) ==
  IF k = 0 THEN 0
  ELSE ProbesOpen(ev, k - 1) + (IF ev[k] = "probe_open" THEN 1
                                ELSE IF ev[k] = "probe_close" THEN -1 ELSE 0)

\* C21: in a start, every failure that is caught (a probe open that raised, the
\* capture stream open that raised) is followed by a log record before the
\* handler does anything else.
C21_EveryFailureLogged ==
  \A k \in DOMAIN events :
    events[k] \in {"probe_fail", "capture_fail"}
      => (k < Len(events) /\ events[k + 1] = "log")

\* C24: in a start, at most one probe stream is open at any time, a failed
\* probe opens none, and no probe stream is open when the capture stream is opened.
C24_ProbesReleased ==
  \A k \in DOMAIN events :
    /\ ProbesOpen(events, k) <= 1
    /\ events[k] = "probe_fail" => ProbesOpen(events, k) = 0
    /\ events[k] \in {"capture_open", "capture_fail"} => ProbesOpen(events, k) = 0

\* a start whose probes failed twice, then succeeded on a fallback rate, and
\* that opened the capture stream afterwards
C24_Witness ==
  /\ Len(events) >= 7
  /\ events[1] = "probe_fail" /\ events[3] = "probe_fail"
  /\ \E k \in DOMAIN events : events[k] = "probe_open"
  /\ events[Len(events)] = "capture_open"
  /\ audio_stream # None

\* C22: no step of audio_callback changes audio_buffer or time_pattern_buffer;
\* a ring history grows only in a step of the render tick's drain.
C22_CallbackOnlyEnqueues ==
  [][/\ audio_callback => UNCHANGED <<audio_buffer, time_pattern_buffer>>
     /\ (Len(audio_buffer') > Len(audio_buffer)
           \/ Len(time_pattern_buffer') > Len(time_pattern_buffer)) => t_drain]_vars

\* C23: pattern_start_time is None while time_pattern_buffer is empty, is set
\* once the buffer holds data that has arrived, and once set changes only by
\* being reset to None.  (A callback between its lines 1090 and 1093 is still
\* delivering its data.)
C23_StampSetOncePerLifetime ==
  [][/\ (ui_pc' = "idle" /\ \A s \in DOMAIN in_streams' : in_streams'[s].pc = "idle")
         => (time_pattern_buffer' = <<>> <=> pattern_start_time' = None)
     /\ (pattern_start_time # None /\ pattern_start_time' # pattern_start_time)
         => pattern_start_time' = None]_vars


\* C25: when _plot_time_pattern draws a history of L samples, a history longer
\* than the display budget B is drawn with stride L // B >= 1: the drawn series
\* has ceil(L / stride) points, its point j is sample j * stride, and the time
\* axis is cut with the same stride to the same length; a history of at most B
\* samples is drawn whole.
C25_DecimationStride ==
  [][(ui_pc = "t_pattern" /\ ui_pc' # "t_pattern") =>
       LET L == Len(time_pattern_buffer)
           stride == L \div DisplayBudget
           out == pattern_plot'
       IN IF L > DisplayBudget
          THEN /\ stride >= 1
               /\ Len(out.data) * stride >= L
               /\ (Len(out.data) - 1) * stride < L
               /\ Len(out.time_axis) = Len(out.data)
               /\ \A j \in 0..(Len(out.data) - 1) :
                    /\ out.data[j + 1] = time_pattern_buffer[j * stride + 1]
                    /\ out.time_axis[j + 1] = [num |-> j * stride, den |-> sample_rate_var]
          ELSE /\ out.data = time_pattern_buffer
               /\ out.time_axis = TimeAxis(L, sample_rate_var)]_vars

\* a history of at least two budgets has been drawn: with a stride of two or
\* more, as fewer points than it has samples
C25_Witness ==
  /\ ui_pc = "t_envelope"
  /\ Len(time_pattern_buffer) >= 2 * DisplayBudget
  /\ Len(pattern_plot.data) >= 2
  /\ Len(pattern_plot.data) < Len(time_pattern_buffer)
  /\ pattern_plot.data[2] = time_pattern_buffer[1 + Len(time_pattern_buffer) \div DisplayBudget]

\* C26: at most one update_visualization call is pending on the main loop at
\* any time, whatever the LISTEN and RECORD buttons did.
C26_OneTickPending == ticks <= 1

\* C28: whenever no handler is running, audio_stream holds a stream if and
\* only if audio_listening or audio_recording is set.
C28_HandleMatchesFlags ==
  ui_pc = "idle" => ((audio_stream # None) <=> (audio_listening \/ audio_recording))

\* C27: a playback thread that was started on a clip of n chunks, read that
\* clip, and left its loop with no stop_playback called since its start, has
\* written all n chunks.
C27_PlaysWholeClip ==
  \A t \in DOMAIN threads :
    (/\ threads[t].pc = "done"
     /\ threads[t].stop_at = -1
     /\ threads[t].clip = threads[t].at_start)
      => threads[t].i = NChunks(threads[t].at_start)

\* C30: every output stream start_playback opened has the sample rate and the
\* channel count of the capture streams the clip was recorded with.
C30_PlaybackUsesClipFormat ==
  \A s \in DOMAIN out_streams : \A c \in DOMAIN in_streams :
    out_streams[s].cfg = in_streams[c].cfg

\* C29: a render tick takes a frame off audio_data_queue only when no frame
\* that was queued when capture last went idle is still at the head of the
\* queue: no frame of an earlier session reaches audio_buffer in a later one.
C29_NoFrameCrossesSessions ==
  [][Len(audio_data_queue') < Len(audio_data_queue) => queued_at_stop = 0]_vars

====
